---- MODULE Spec2Model ----
(***************************************************************************)
(* The JSON-RPC correlation engine of deltachat_rpc_client: class          *)
(* Deltachat (reader_loop, get_next_event, the dynamic method of           *)
(* __getattr__) on a single-threaded asyncio event loop.                   *)
(*                                                                         *)
(* A coroutine runs without interruption from one await that really        *)
(* suspends to the next, so every action below is one such run: a whole    *)
(* invocation of method() up to `await fut`, the rest of method() after    *)
(* the future is done, one iteration of reader_loop.                       *)
(***************************************************************************)
EXTENDS Integers, Sequences, FiniteSets, TLC

\* Number of invocations of method() in a run (the k-th invocation is call k).
MaxCalls == 2
\* Number of event notifications the server emits in a run.
MaxEvents == 2

\* maxsize of asyncio.Queue() as constructed in __init__ (no argument: 0,
\* which asyncio takes as "no limit").
QueueMaxsize == 0

Calls == 1 .. MaxCalls

\* One remote method name: the engine never looks at it.
Methods == {"get_info"}
\* Positional argument tuples and keyword argument mappings a caller passes
\* (a mapping is written as the sequence of its items).
ArgTuples == {<<>>, <<"a">>}
KwargMaps == {<<>>, <<"k=v">>}

Results == {"r1"}
Errors == {"e1"}
\* The params payload of the k-th notification a server emits is k: the
\* engine never looks into a payload, so payloads that are all different
\* show every reordering, loss and duplication.
EventParams == 1 .. MaxEvents

\* Ids a server line may carry: every id the engine can allocate, and one
\* it never allocates.
UnknownId == MaxCalls + 1
ResponseIds == 1 .. UnknownId

(***************************************************************************)
(* Lines of the process's output stream.  A line is end-of-stream          *)
(* (readline returns b""), text that is not JSON, or a JSON object; `has`  *)
(* is the set of keys of the object.                                       *)
(***************************************************************************)
Obj(has, i, m, p, r, e) ==
  [kind |-> "object", has |-> has, id |-> i, method |-> m, params |-> p,
   result |-> r, error |-> e]

EofLine == [kind |-> "eof", has |-> {}, id |-> 0, method |-> "", params |-> 0,
            result |-> "", error |-> ""]
GarbageLine == [EofLine EXCEPT !.kind = "garbage"]
\* The value of a future that holds no result.
NoResponse == [EofLine EXCEPT !.kind = "none"]

ResponseLines ==
  {Obj({"id", "result"}, i, "", 0, r, "") : i \in ResponseIds, r \in Results}
  \cup {Obj({"id", "error"}, i, "", 0, "", e) : i \in ResponseIds, e \in Errors}
  \cup {Obj({"id", "result", "error"}, i, "", 0, "r1", e) : i \in ResponseIds, e \in Errors}
  \cup {Obj({"id", "method", "params"}, i, "event", 1, "", "") : i \in ResponseIds}

NotificationLines ==
  {Obj({"method", "params"}, 0, "event", p, "", "") : p \in EventParams}

OtherLines ==
  {Obj({"method", "params"}, 0, "other", 1, "", "")}

Lines ==
  {EofLine, GarbageLine} \cup ResponseLines
  \cup NotificationLines \cup OtherLines

VARIABLES
  id,              \* self.id
  request_events,  \* self.request_events: request id -> the call whose future it holds
  event_queue,     \* self.event_queue
  reader_task,     \* self.reader_task: "running", "failed" (ended by an
                   \* exception) or "put_blocked" (suspended in Queue.put)
  stdin,           \* what has been written to process.stdin, one entry per write
  pc,              \* per call: "idle", "await_fut" or "done"
  args,            \* per call: the positional arguments
  kwargs,          \* per call: the keyword arguments
  request_id,      \* per call: the local request_id (0 before the call)
  fut,             \* per call: the future of the call, [state, result]
  outcome,         \* per call: what the call returned or raised
  steps,           \* per call: the statements of method() it has run, in order
  events_in,       \* params of the notifications read off the output stream, in order
  events_out,      \* the values get_next_event has returned, in order
  discarded        \* the owner has dropped the engine

vars ==
  <<id, request_events, event_queue, reader_task, stdin, pc, args, kwargs,
    request_id, fut, outcome, steps, events_in, events_out, discarded>>

callVars == <<pc, args, kwargs, request_id, fut, outcome, steps>>
eventVars == <<event_queue, events_in, events_out>>

NoOutcome == [kind |-> "none", val |-> ""]

\* Deltachat.__init__
Init ==
  /\ id = 0
  /\ request_events = [i \in {} |-> 0]
  /\ event_queue = <<>>
  /\ reader_task = "running"
  /\ stdin = <<>>
  /\ pc = [c \in Calls |-> "idle"]
  /\ args = [c \in Calls |-> <<>>]
  /\ kwargs = [c \in Calls |-> <<>>]
  /\ request_id = [c \in Calls |-> 0]
  /\ fut = [c \in Calls |-> [state |-> "none", result |-> NoResponse]]
  /\ outcome = [c \in Calls |-> NoOutcome]
  /\ steps = [c \in Calls |-> <<>>]
  /\ events_in = <<>>
  /\ events_out = <<>>
  /\ discarded = FALSE

(***************************************************************************)
(* The dynamic method returned by __getattr__.                             *)
(***************************************************************************)
\* A counter update that is lost once a first id is out.
NextIdLostUpdate(n) == IF n >= 1 THEN n ELSE n + 1

\* self.id += 1
NextId(n) == n + 1

\* params = args; if kwargs: ...; params = kwargs
BuildParams(a, k) == IF k # <<>> THEN k ELSE a

\* The assertion left out.
ArgsAcceptedAlways(a, k) == TRUE

\* if kwargs: assert not args
ArgsAccepted(a, k) == (k # <<>>) => (a = <<>>)

\* The request dictionary.
Request(attr, params, i) ==
  [jsonrpc |-> "2.0", method |-> attr, params |-> params, id |-> i]

\* The request without the newline that ends it.
EncodeNoNewline(request) == [json |-> request, end |-> ""]

\* (json.dumps(request) + "\n").encode(): one newline-terminated line.
Encode(request) == [json |-> request, end |-> "\n"]

\* The future is created and never put into the table.
RegisterSkip(tbl, i, c) == tbl

\* self.request_events[request_id] = fut (a dict assignment: an entry under
\* the same key is replaced).
Register(tbl, i, c) ==
  [j \in DOMAIN tbl \cup {i} |-> IF j = i THEN c ELSE tbl[j]]

\* The statements with an effect outside the call, registration ahead of
\* the write.
MethodStepsRegisterFirst ==
  <<"allocate_id", "build_request", "register", "write", "suspend">>

\* The statements of method() with an effect outside the call, in program
\* order: self.id += 1; request = {...}; self.process.stdin.write(data);
\* self.request_events[request_id] = fut; await fut.
MethodSteps ==
  <<"allocate_id", "build_request", "write", "register", "suspend">>

\* The statements run by a call that fails `assert not args`.
RejectedSteps == <<MethodSteps[1]>>

\* The first run of method(): from its start to `await fut`, or to the
\* AssertionError.  Call c is the c-th invocation.
method(c, attr, a, k) ==
  /\ ~discarded
  /\ pc[c] = "idle"
  /\ \A d \in Calls : d < c => pc[d] # "idle"
  /\ id' = NextId(id)
  /\ request_id' = [request_id EXCEPT ![c] = id']
  /\ args' = [args EXCEPT ![c] = a]
  /\ kwargs' = [kwargs EXCEPT ![c] = k]
  /\ IF ArgsAccepted(a, k)
       THEN /\ stdin' = Append(stdin, Encode(Request(attr, BuildParams(a, k), id')))
            /\ fut' = [fut EXCEPT ![c] = [state |-> "pending", result |-> NoResponse]]
            /\ request_events' = Register(request_events, id', c)
            /\ pc' = [pc EXCEPT ![c] = "await_fut"]
            /\ steps' = [steps EXCEPT ![c] = MethodSteps]
            /\ UNCHANGED outcome
       ELSE /\ pc' = [pc EXCEPT ![c] = "done"]
            /\ outcome' = [outcome EXCEPT ![c] = [kind |-> "AssertionError", val |-> ""]]
            /\ steps' = [steps EXCEPT ![c] = RejectedSteps]
            /\ UNCHANGED <<stdin, fut, request_events>>
  /\ UNCHANGED <<reader_task, eventVars, discarded>>

\* "result" looked at before "error".
OutcomeResultFirst(response) ==
  IF "result" \in response.has
    THEN [kind |-> "return", val |-> response.result]
    ELSE IF "error" \in response.has
      THEN [kind |-> "JsonRpcError", val |-> response.error]
      ELSE [kind |-> "return", val |-> "None"]

\* What method() does with the response its future delivered.
Outcome(response) ==
  IF "error" \in response.has
    THEN [kind |-> "JsonRpcError", val |-> response.error]
    ELSE IF "result" \in response.has
      THEN [kind |-> "return", val |-> response.result]
      ELSE [kind |-> "return", val |-> "None"]

\* A call that goes on only when no other call is waiting for its response.
method_resume_after_all(c) ==
  /\ pc[c] = "await_fut"
  /\ fut[c].state = "done"
  /\ \A d \in Calls : fut[d].state # "pending"
  /\ pc' = [pc EXCEPT ![c] = "done"]
  /\ outcome' = [outcome EXCEPT ![c] = Outcome(fut[c].result)]
  /\ UNCHANGED <<id, request_events, stdin, args, kwargs, request_id, fut,
                 steps, reader_task, eventVars, discarded>>

\* The second run of method(): from `response = await fut` to its end.
method_resume(c) ==
  /\ pc[c] = "await_fut"
  /\ fut[c].state = "done"
  /\ pc' = [pc EXCEPT ![c] = "done"]
  /\ outcome' = [outcome EXCEPT ![c] = Outcome(fut[c].result)]
  /\ UNCHANGED <<id, request_events, stdin, args, kwargs, request_id, fut,
                 steps, reader_task, eventVars, discarded>>

\* The caller gives up while suspended in `await fut` (its task is cancelled,
\* or asyncio.wait_for times out): asyncio cancels the awaited future and
\* raises CancelledError in method(); nothing removes the table entry.
method_cancel(c) ==
  /\ pc[c] = "await_fut"
  /\ fut[c].state = "pending"
  /\ fut' = [fut EXCEPT ![c].state = "cancelled"]
  /\ pc' = [pc EXCEPT ![c] = "done"]
  /\ outcome' = [outcome EXCEPT ![c] = [kind |-> "CancelledError", val |-> ""]]
  /\ UNCHANGED <<id, request_events, stdin, args, kwargs, request_id, steps,
                 reader_task, eventVars, discarded>>

(***************************************************************************)
(* reader_loop                                                             *)
(***************************************************************************)
\* A queue that holds one item at most.
FullAtOne(q) == Len(q) >= 1

\* asyncio.Queue.full()
Full(q) == QueueMaxsize > 0 /\ Len(q) >= QueueMaxsize

\* appendleft in place of append.
QueuePutFront(q, x) == <<x>> \o q

\* asyncio.Queue._put / _get: a deque, append and popleft.
QueuePut(q, x) == Append(q, x)
QueueGet(q) == Head(q)
QueueRest(q) == Tail(q)

\* Responses matched to the pending calls in the order these were sent.
ResolveKeyOldest(tbl, response) ==
  IF DOMAIN tbl = {}
    THEN response.id
    ELSE CHOOSE i \in DOMAIN tbl : \A j \in DOMAIN tbl : i <= j

\* The key reader_loop pops for a response: response["id"].
ResolveKey(tbl, response) == response.id

\* The entry looked up and left in the table.
PopKeepsEntry(tbl, key) == tbl

\* dict.pop(key) of a key that is present.
Pop(tbl, key) == [j \in DOMAIN tbl \ {key} |-> tbl[j]]

\* An exception leaves reader_loop: the task is finished, holding it.
\* Nothing awaits the task, so the exception reaches nobody.
ReaderRaise(exc) == reader_task' = "failed"

\* An id that counts only when the message is not an event.
HasIdUnlessEvent(line) == "id" \in line.has /\ line.method # "event"

\* "id" in response
HasId(line) == "id" \in line.has

IsNotification(line) ==
  /\ line.kind = "object"
  /\ ~HasId(line)
  /\ line.method = "event"

\* if "id" in response: pop the future and set its result.
ReaderResponse(line) ==
  LET key == ResolveKey(request_events, line) IN
  IF key \notin DOMAIN request_events
    THEN /\ ReaderRaise("KeyError(id)")
         /\ UNCHANGED <<request_events, fut>>
    ELSE LET c == request_events[key] IN
         /\ request_events' = Pop(request_events, key)
         /\ IF fut[c].state = "pending"
              THEN /\ fut' = [fut EXCEPT ![c] = [state |-> "done", result |-> line]]
                   /\ UNCHANGED reader_task
              ELSE /\ ReaderRaise("InvalidStateError")
                   /\ UNCHANGED fut

\* await self.event_queue.put(response["params"])
ReaderPut(item) ==
  /\ events_in' = Append(events_in, item)
  /\ IF Full(event_queue)
       THEN /\ reader_task' = "put_blocked"
            /\ UNCHANGED event_queue
       ELSE /\ event_queue' = QueuePut(event_queue, item)
            /\ UNCHANGED reader_task

\* One iteration of the loop: readline delivers `line`, and the body runs
\* to the next readline or to the exception that ends the task.
reader_loop(line) ==
  /\ reader_task = "running"
  /\ IsNotification(line) => line.params = Len(events_in) + 1
  /\ CASE line.kind \in {"eof", "garbage"} ->
            /\ ReaderRaise("JSONDecodeError")
            /\ UNCHANGED <<request_events, fut, event_queue, events_in>>
       [] line.kind = "object" /\ HasId(line) ->
            /\ ReaderResponse(line)
            /\ UNCHANGED <<event_queue, events_in>>
       [] line.kind = "object" /\ ~HasId(line) ->
            IF line.method = "event"
              THEN /\ ReaderPut(line.params)
                   /\ UNCHANGED <<request_events, fut>>
              ELSE UNCHANGED <<reader_task, request_events, fut, event_queue,
                               events_in>>
  /\ UNCHANGED <<id, stdin, pc, args, kwargs, request_id, outcome, steps,
                 events_out, discarded>>

(***************************************************************************)
(* get_next_event                                                          *)
(***************************************************************************)
\* A completed get_next_event: `await self.event_queue.get()` returns the
\* head of the queue, at once when an item is at hand, and otherwise when
\* a put has woken the suspended consumer.
get_next_event ==
  /\ ~discarded
  /\ event_queue # <<>>
  /\ events_out' = Append(events_out, QueueGet(event_queue))
  /\ event_queue' = QueueRest(event_queue)
  /\ UNCHANGED <<id, request_events, stdin, callVars, reader_task, events_in, discarded>>

(***************************************************************************)
(* The owner drops its reference to the engine.  The class defines no      *)
(* close, __del__ or other teardown, and the running reader task keeps the *)
(* object alive: nothing of the engine changes.                            *)
(***************************************************************************)
discard ==
  /\ ~discarded
  /\ discarded' = TRUE
  /\ UNCHANGED <<id, request_events, stdin, callVars, reader_task, eventVars>>

Next ==
  \/ \E c \in Calls, attr \in Methods, a \in ArgTuples, k \in KwargMaps :
       method(c, attr, a, k)
  \/ \E c \in Calls : method_resume(c)
  \/ \E c \in Calls : method_cancel(c)
  \/ \E line \in Lines : reader_loop(line)
  \/ get_next_event
  \/ discard

Spec == Init /\ [][Next]_vars

\* The event loop runs every task that is ready: a call whose future is
\* done is resumed.
FairSpec == Spec /\ \A c \in Calls : WF_vars(method_resume(c))

TypeOK ==
  /\ id \in 0 .. MaxCalls
  /\ DOMAIN request_events \subseteq 1 .. MaxCalls
  /\ reader_task \in {"running", "failed", "put_blocked"}
  /\ \A c \in Calls : pc[c] \in {"idle", "await_fut", "done"}

(***************************************************************************)
(* Properties                                                              *)
(***************************************************************************)
Started(c) == pc[c] # "idle"
Rejected(c) == outcome[c].kind = "AssertionError"
Accepted(c) == Started(c) /\ ~Rejected(c)
Suspended(c) == pc[c] = "await_fut" /\ fut[c].state = "pending"
StdinIds == [k \in 1 .. Len(stdin) |-> stdin[k].json.id]

\* C1: responses are matched by id, not by send order: the response a
\* call's future receives carries the call's own request id, and what the
\* call returns is the result of that response.
C1_MatchedById ==
  \A c \in Calls :
    /\ fut[c].state = "done" => fut[c].result.id = request_id[c]
    /\ outcome[c].kind = "return" =>
         /\ fut[c].state = "done"
         /\ fut[c].result.id = request_id[c]
         /\ outcome[c].val =
              IF "result" \in fut[c].result.has THEN fut[c].result.result ELSE "None"

\* Two calls are outstanding and the later one is answered first.
C1_Witness ==
  /\ Suspended(1)
  /\ request_id[1] = 1 /\ request_id[2] = 2
  /\ outcome[2] = [kind |-> "return", val |-> "r1"]

\* C2: every accepted call writes exactly one request; ids come from a
\* counter that starts at 1 and grows with every call; no two requests
\* carry the same id and no id is outstanding twice.
C2_UniqueIncreasingIds ==
  /\ id = Cardinality({c \in Calls : Started(c)})
  /\ \A c \in Calls : Started(c) => request_id[c] >= 1
  /\ \A c, d \in Calls : Started(c) /\ Started(d) /\ c < d => request_id[c] < request_id[d]
  /\ Len(stdin) = Cardinality({c \in Calls : Accepted(c)})
  /\ \A c \in Calls :
       Accepted(c) => Cardinality({k \in DOMAIN stdin : StdinIds[k] = request_id[c]}) = 1
  /\ \A j, k \in DOMAIN stdin : j < k => StdinIds[j] < StdinIds[k]
  /\ \A c, d \in Calls : Suspended(c) /\ Suspended(d) /\ c # d => request_id[c] # request_id[d]
  /\ \A i \in DOMAIN request_events : request_id[request_events[i]] = i
  /\ \A c \in Calls : Suspended(c) => request_id[c] \in DOMAIN request_events

\* Two calls are outstanding at once.
C2_Witness ==
  /\ Suspended(1) /\ Suspended(2)
  /\ StdinIds = <<1, 2>>

\* C3: get_next_event returns the params of the notifications in the order
\* of their arrival: what has been returned, followed by what is queued, is
\* what has arrived.
C3_EventsFifo == events_out \o event_queue = events_in

\* Two events were consumed while one call was suspended and another answered.
C3_Witness ==
  /\ events_out = <<1, 2>>
  /\ \E c, d \in Calls : Suspended(c) /\ fut[d].state = "done"

\* C4: when end-of-stream is read, the reader stops and every pending call
\* is failed (none is left pending).
C4_EofFailsPending ==
  [][reader_loop(EofLine) =>
       /\ reader_task' # "running"
       /\ \A c \in Calls : fut[c].state = "pending" => fut'[c].state # "pending"]_vars

\* C5: when a response with an id that is not in the table is read, the
\* reader stops and the error reaches every pending call (none is left
\* pending).
C5_UnknownIdFailsPending ==
  [][\A line \in ResponseLines :
       (line.id \notin DOMAIN request_events /\ reader_loop(line)) =>
         /\ reader_task' # "running"
         /\ \A c \in Calls : fut[c].state = "pending" => fut'[c].state # "pending"]_vars

\* C6: a call made after the reader has stopped fails at once: it does not
\* end up suspended.
C6_CallAfterStopFails ==
  [][\A c \in Calls :
       (reader_task = "failed" /\ pc[c] = "idle" /\ pc'[c] # "idle") =>
         pc'[c] = "done"]_vars

\* C7: an error response for a suspended call makes that call, and only
\* it, raise JsonRpcError with the response's error value, also when the
\* response holds a result as well; the step that delivers the response
\* leaves the reader running, removes that call's table entry only and
\* leaves every other call as it was.
C7_ErrorIsLocal ==
  /\ [](\A c \in Calls :
          /\ outcome[c].kind = "JsonRpcError" =>
               /\ fut[c].result.id = request_id[c]
               /\ "error" \in fut[c].result.has
               /\ outcome[c].val = fut[c].result.error
          /\ (pc[c] = "done" /\ fut[c].state = "done" /\ "error" \in fut[c].result.has) =>
               outcome[c] = [kind |-> "JsonRpcError", val |-> fut[c].result.error])
  /\ [][\A c \in Calls :
          ( /\ fut[c].state = "pending"
            /\ fut'[c].state = "done"
            /\ "error" \in fut'[c].result.has ) =>
            /\ fut'[c].result.id = request_id[c]
            /\ reader_task' = "running"
            /\ request_events' = Pop(request_events, request_id[c])
            /\ \A d \in Calls \ {c} : fut'[d] = fut[d] /\ pc'[d] = pc[d]]_vars

\* A call raised JsonRpcError from a response that also held a result,
\* while another call is still suspended.
C7_Witness ==
  \E c, d \in Calls :
    /\ outcome[c] = [kind |-> "JsonRpcError", val |-> "e1"]
    /\ "result" \in fut[c].result.has
    /\ Suspended(d)
    /\ reader_task = "running"

\* C8: a call with both positional and keyword arguments fails without
\* suspending, writing or registering anything; any other call writes its
\* request.
C8_BothArgsRejected ==
  \A c \in Calls :
    Started(c) =>
      IF args[c] # <<>> /\ kwargs[c] # <<>>
        THEN /\ pc[c] = "done"
             /\ Rejected(c)
             /\ fut[c].state = "none"
             /\ \A k \in DOMAIN stdin : StdinIds[k] # request_id[c]
             /\ request_id[c] \notin DOMAIN request_events
        ELSE /\ ~Rejected(c)
             /\ fut[c].state # "none"
             /\ \E k \in DOMAIN stdin :
                  stdin[k].json.id = request_id[c]
                  /\ stdin[k].json.params = (IF kwargs[c] # <<>> THEN kwargs[c] ELSE args[c])

\* A call was rejected and a call with keyword arguments only was sent.
C8_Witness ==
  /\ Rejected(1) /\ args[1] # <<>> /\ kwargs[1] # <<>>
  /\ Suspended(2) /\ args[2] = <<>> /\ kwargs[2] # <<>>

\* The result response for request id i.
ResultLine(i) == Obj({"id", "result"}, i, "", 0, "r1", "")

\* C9: putting an event never suspends the reader: every notification read
\* is in the queue or consumed, and whatever the queue holds, the reader
\* that has not failed can read the response of any suspended call and
\* resolve it.
C9_PutNeverBlocks ==
  /\ reader_task # "put_blocked"
  /\ Len(events_out) + Len(event_queue) = Len(events_in)
  /\ \A c \in Calls :
       (Suspended(c) /\ reader_task # "failed") =>
         ENABLED (reader_loop(ResultLine(request_id[c])) /\ fut'[c].state = "done")

\* Every event of the run is queued, none consumed, and a call is suspended.
C9_Witness ==
  /\ Len(event_queue) = MaxEvents
  /\ events_out = <<>>
  /\ reader_task = "running"
  /\ \E c \in Calls : Suspended(c)

\* C10: once the engine is discarded the reader task is cancelled and no
\* call is left pending.
C10_DiscardCancels ==
  discarded =>
    /\ reader_task # "running"
    /\ \A c \in Calls : ~Suspended(c)

\* C11: when a line that is not JSON is read, the reader stops and every
\* pending call is failed with a protocol error (none is left pending).
C11_DecodeFailureFailsPending ==
  [][reader_loop(GarbageLine) =>
       /\ reader_task' = "failed"
       /\ \A c \in Calls : Suspended(c) => fut'[c].state # "pending"]_vars

\* The message without id whose method is not "event".
UnrecognizedLine == Obj({"method", "params"}, 0, "other", 1, "", "")

\* C12: while calls are pending, reading a message without id whose method
\* is not "event" is fatal: no such step leaves the reader running or a
\* call pending.
C12_UnrecognizedIsFatal ==
  (\E c \in Calls : Suspended(c)) =>
    ~ENABLED ( /\ reader_loop(UnrecognizedLine)
               /\ \/ reader_task' = "running"
                  \/ \E c \in Calls : fut'[c].state = "pending" )

\* C13: a future is completed once and by the reader only: the step that
\* completes it is a reader step that finds it pending under its id and
\* removes that entry; a completed future never changes again and has no
\* entry, so a second response with its id finds none.
C13_ResolvedOnce ==
  /\ [](\A c \in Calls : fut[c].state = "done" => request_id[c] \notin DOMAIN request_events)
  /\ [][\A c \in Calls :
          /\ fut[c].state = "done" => fut'[c] = fut[c]
          /\ (fut[c].state # "done" /\ fut'[c].state = "done") =>
               /\ fut[c].state = "pending"
               /\ reader_task = "running"
               /\ request_id[c] \in DOMAIN request_events
               /\ request_events[request_id[c]] = c
               /\ request_events' = Pop(request_events, request_id[c])
               /\ pc' = pc /\ outcome' = outcome]_vars

\* A future is completed, its call not yet resumed, its entry gone and the
\* entry of another call still there.
C13_Witness ==
  \E c, d \in Calls :
    /\ pc[c] = "await_fut" /\ fut[c].state = "done"
    /\ request_id[c] \notin DOMAIN request_events
    /\ request_id[d] \in DOMAIN request_events

\* C14: a call does not complete before its response has arrived, and once
\* its future holds the response the call does complete, with what that
\* response says, whatever becomes of the other calls.
C14_AnsweredCallCompletes ==
  /\ [](\A c \in Calls :
          outcome[c].kind \in {"return", "JsonRpcError"} => fut[c].state = "done")
  /\ \A c \in Calls :
       (fut[c].state = "done") ~> (pc[c] = "done" /\ outcome[c] = Outcome(fut[c].result))

\* The first call has returned while the second, issued meanwhile, is still
\* suspended.
C14_Witness ==
  /\ pc[1] = "done" /\ outcome[1].kind = "return"
  /\ Suspended(2)
  /\ reader_task = "running"

\* Statement x is run before statement y in the trace s.
Before(s, x, y) == \E j, k \in DOMAIN s : j < k /\ s[j] = x /\ s[k] = y

C16_ExclusiveRouting ==
  [][/\ (events_in' # events_in) =>
          /\ \A line \in ResponseLines : ~reader_loop(line)
          /\ \E line \in NotificationLines :
               /\ reader_loop(line)
               /\ events_in' = Append(events_in, line.params)
               /\ event_queue' = Append(event_queue, line.params)
          /\ request_events' = request_events
          /\ fut' = fut /\ pc' = pc /\ outcome' = outcome
          /\ reader_task' = reader_task
     /\ (DOMAIN request_events' # DOMAIN request_events
           /\ DOMAIN request_events' \subseteq DOMAIN request_events) =>
          /\ \A line \in NotificationLines : ~reader_loop(line)
          /\ \E line \in ResponseLines :
               /\ reader_loop(line)
               /\ DOMAIN request_events' = DOMAIN request_events \ {line.id}
          /\ eventVars' = eventVars]_vars

\* A call was resolved by a message with its id and method "event" and the
\* Event Channel holds the one notification read, while another call is
\* still suspended.
C16_Witness ==
  \E c, d \in Calls :
    /\ fut[c].state = "done"
    /\ fut[c].result.method = "event"
    /\ Suspended(d)
    /\ events_in = <<1>>
    /\ event_queue = <<1>>

\* C17: the input stream is at every moment a sequence of complete requests:
\* every write is one whole request ended by its newline, it is the request
\* of exactly one accepted call (that call's id and parameters), every
\* accepted call has exactly one, and the ids on the stream increase; a
\* step that changes the stream appends one whole request, that of the
\* call that starts in this step, and leaves what was written as it was.
C17_WholeRequestsInOrder ==
  /\ []( /\ \A k \in DOMAIN stdin :
            /\ stdin[k].end = "\n"
            /\ stdin[k].json.jsonrpc = "2.0"
            /\ stdin[k].json.method \in Methods
            /\ \E c \in Calls :
                 /\ Accepted(c)
                 /\ stdin[k].json.id = request_id[c]
                 /\ stdin[k].json.params =
                      (IF kwargs[c] # <<>> THEN kwargs[c] ELSE args[c])
                 /\ \A d \in Calls \ {c} : request_id[d] # request_id[c]
            /\ \A j \in DOMAIN stdin : j < k => stdin[j].json.id < stdin[k].json.id
         /\ \A c \in Calls :
              Accepted(c) <=> \E k \in DOMAIN stdin : stdin[k].json.id = request_id[c])
  /\ [][stdin' # stdin =>
          /\ Len(stdin') = Len(stdin) + 1
          /\ SubSeq(stdin', 1, Len(stdin)) = stdin
          /\ stdin'[Len(stdin')].end = "\n"
          /\ \E c \in Calls :
               /\ pc[c] = "idle" /\ pc'[c] = "await_fut"
               /\ stdin'[Len(stdin')].json.id = request_id'[c]
               /\ \A d \in Calls \ {c} : pc'[d] = pc[d]]_vars

\* Two calls are outstanding at once, one with positional and one with
\* keyword arguments, and both requests are on the stream.
C17_Witness ==
  /\ Suspended(1) /\ Suspended(2)
  /\ Len(stdin) = 2
  /\ stdin[1].json.params = <<"a">>
  /\ stdin[2].json.params = <<"k=v">>

\* C18: whenever the reader can process a message, the keys of the table
\* are the ids of the requests written and not yet answered, each held for
\* the call that wrote it; every key lies between 1 and the id counter; so
\* an id that is on the stream and not in the table belongs to a call that
\* has its response already: the reader fails on a response for want of a
\* table entry only when its id was never written or was answered before.
C18_TableIsWrittenUnanswered ==
  /\ []( /\ \A i \in DOMAIN request_events :
            /\ 1 <= i /\ i <= id
            /\ \E k \in DOMAIN stdin : stdin[k].json.id = i
         /\ reader_task = "running" =>
              /\ \A k \in DOMAIN stdin :
                   stdin[k].json.id \in DOMAIN request_events
                     <=> \A c \in Calls :
                           fut[c].state = "done" => request_id[c] # stdin[k].json.id
              /\ \A c \in Calls :
                   (Accepted(c) /\ fut[c].state # "done") =>
                     /\ request_id[c] \in DOMAIN request_events
                     /\ request_events[request_id[c]] = c)
  /\ [][(reader_task = "running" /\ reader_task' = "failed") =>
          \A i \in ResponseIds :
            ( /\ i \notin DOMAIN request_events
              /\ \E k \in DOMAIN stdin : stdin[k].json.id = i ) =>
              \/ \E c \in Calls : request_id[c] = i /\ fut[c].state = "done"
              \/ ~reader_loop(ResultLine(i))]_vars

\* The first call is answered and gone from the table, the second is
\* written, unanswered and in it, and the reader runs.
C18_Witness ==
  /\ reader_task = "running"
  /\ fut[1].state = "done"
  /\ Suspended(2)
  /\ DOMAIN request_events = {2}
  /\ Len(stdin) = 2
  /\ id = 2

\* C19: a call abandoned while suspended does not disrupt the session: the
\* step that reads the late response for its id removes its entry and
\* leaves the reader running.
C19_AbandonedCallHarmless ==
  [][\A c \in Calls :
       ( /\ fut[c].state = "cancelled"
         /\ request_id[c] \in DOMAIN request_events
         /\ request_id[c] \notin DOMAIN request_events' ) =>
         reader_task' = "running"]_vars

\* C20: a call rejected for passing both positional and keyword arguments
\* leaves the id counter, the table, the Event Channel and the input stream
\* as they were, so the k-th request on the stream carries id k.
C20_RejectedCallChangesNothing ==
  /\ [][\A c \in Calls :
          (pc[c] = "idle" /\ outcome'[c].kind = "AssertionError") =>
            /\ id' = id
            /\ request_events' = request_events
            /\ eventVars' = eventVars
            /\ stdin' = stdin]_vars
  /\ [](\A k \in DOMAIN stdin : stdin[k].json.id = k)

====
